---- MODULE Spec2Model ----
(***************************************************************************)
(* Model of kubeflow2-app.py, a Streamlit dashboard script.  The host      *)
(* framework re-executes the script top to bottom on every interaction.    *)
(*                                                                         *)
(* Spec    the script run as the framework executes it: one action per     *)
(*         section of the script, plus the user's interaction that         *)
(*         triggers the next run.                                          *)
(* SpecFn  the data expressions of the script (country list, filter and    *)
(*         sort, pivot, series and its guard, forecast years, the          *)
(*         recommendation) applied to tables drawn from bounded sets.      *)
(*                                                                         *)
(* Representation                                                          *)
(*   country name   a non-empty tuple of code points, compared the way     *)
(*                  Python compares str (lexicographically by code point)  *)
(*   metric value   a natural number, or Missing (an empty CSV cell, NaN)  *)
(*   forecast value a natural number of hundredths (8996 is 89.96)         *)
(*   mean           a pair <<sum, count>>                                  *)
(***************************************************************************)
EXTENDS Integers, Sequences, FiniteSets, TLC

VARIABLES
    uploaded_file,       \* value of the file_uploader widget
    cache,               \* entries of st.cache_data for load_data
    nparse,              \* number of executions of the body of load_data
    ncall,               \* number of calls of load_data
    runs,                \* number of script runs started so far
    pc,                  \* position in the script
    out,                 \* elements rendered by the current run, in order
    loaded,              \* load_data was called in the current run
    df, countries, selected_country, access_type, forecast_years,
    country_df, trend, pivot, series, engine, forecast,
    forecast_year_index, latest_value, message

vars == <<uploaded_file, cache, nparse, ncall, runs, pc, out, loaded, df,
          countries, selected_country, access_type, forecast_years, country_df,
          trend, pivot, series, engine, forecast, forecast_year_index,
          latest_value, message>>

----------------------------------------------------------------------------
(* Bounds of the model *)

MaxRuns == 4        \* script runs in one session
MaxRows == 2        \* rows of a freely drawn file
MaxYear == 2        \* years of a freely drawn file are 1..MaxYear
MaxSpan == 7        \* longest run of consecutive years in a sample file

(* Constants of the program *)

MinPoints == 6
MinHorizon == 3
MaxHorizon == 15
DefaultHorizon == 5
Threshold == 9000                       \* 90, in hundredths

AccessTypes == {"electricity_access", "rural_access", "urban_access"}

BoundNames == {"st", "pd", "np", "ARIMA"}

----------------------------------------------------------------------------
(* Values *)

Missing == -1
Values == {Missing, 40, 60}

NameA == <<65>>                         \* "A"
NameAB == <<65, 66>>                    \* "AB"
NameB == <<66>>                         \* "B"
NoCountry == <<>>                       \* None

NoFile == [header |-> <<>>, rows |-> <<>>]
NoTable == [columns |-> <<>>, rows |-> <<>>]
NoPivot == [index |-> <<>>, columns |-> <<>>, cell |-> <<>>]
NoMessage == [kind |-> "none", country |-> NoCountry, shown |-> 0]
NoTrend == [x |-> <<>>, y |-> <<>>]

Min(a, b) == IF a < b THEN a ELSE b

\* Python's < on str
StrLess(a, b) ==
    \E k \in 0..Min(Len(a), Len(b)) :
        /\ \A i \in 1..k : a[i] = b[i]
        /\ \/ k = Len(a) /\ k < Len(b)
           \/ k < Len(a) /\ k < Len(b) /\ a[k + 1] < b[k + 1]

\* str.lower on the column names that occur in the files of the model
Lower(name) ==
    CASE name = "Country" -> "country"
      [] name = "Year" -> "year"
      [] name = "Rural_Access" -> "rural_access"
      [] OTHER -> name

----------------------------------------------------------------------------
(* Files: a header and rows <<country, year, metric value>> *)

Headers ==
    { <<"country", "year", "electricity_access">>,
      <<"Country", "Year", "Rural_Access">> }

RowSpace == {NameB, NameAB} \X (1..MaxYear) \X Values

RECURSIVE SeqsUpTo(_, _)
SeqsUpTo(S, n) ==
    IF n = 0 THEN {<<>>}
    ELSE LET shorter == SeqsUpTo(S, n - 1)
         IN shorter \cup {Append(s, x) : s \in {t \in shorter : Len(t) = n - 1}, x \in S}

SmallFiles == {[header |-> h, rows |-> r] : h \in Headers, r \in SeqsUpTo(RowSpace, MaxRows)}

\* n consecutive years of one country, values rising, with one irregularity:
\*   "dup"      the last row repeats the year before it
\*   "missing"  the value of the first year is missing
\*   "reversed" the rows are in descending year order
Twists == {"none", "dup", "missing", "reversed"}

SpanRows(c, n, twist) ==
    [i \in 1..n |->
        CASE twist = "dup" /\ i = n /\ n > 1 -> <<c, n - 1, 40 + n>>
          [] twist = "missing" /\ i = 1 -> <<c, 1, Missing>>
          [] twist = "reversed" -> <<c, n + 1 - i, 40 + (n + 1 - i)>>
          [] OTHER -> <<c, i, 40 + i>>]

SpanLens == (MinPoints - 2)..MaxSpan

LongFiles ==
    {[header |-> h, rows |-> SpanRows(c, n, t)] :
        h \in Headers, c \in {NameA}, n \in SpanLens, t \in Twists}

\* files of a session: none, one or two countries, each with too few or
\* enough years
RunSpans == {0, MinPoints - 2, MinPoints}

RunFiles ==
    {[header |-> h, rows |-> SpanRows(NameB, nb, "reversed") \o SpanRows(NameA, na, "none")] :
        h \in Headers, nb \in {0, MinPoints}, na \in RunSpans}

FnFiles == SmallFiles \cup LongFiles

----------------------------------------------------------------------------
(* DataFrame operations *)

HasColumn(t, name) == \E i \in DOMAIN t.columns : t.columns[i] = name

ColIndex(t, name) == CHOOSE i \in DOMAIN t.columns : t.columns[i] = name

\* t[name] as a sequence, one entry per row
Column(t, name) == [i \in DOMAIN t.rows |-> t.rows[i][ColIndex(t, name)]]

\* pd.read_csv
ReadCsv(file) == [columns |-> file.header, rows |-> file.rows]

\* df.columns = df.columns.str.lower()
LowerColumns(t) == [columns |-> [i \in DOMAIN t.columns |-> Lower(t.columns[i])],
                    rows |-> t.rows]

\* the body of load_data
LoadDataBody(file) == LowerColumns(ReadCsv(file))

\* the key under which st.cache_data stores a call of load_data
CacheKeyByHeader(file) == file.header

CacheKey(file) == file

RECURSIVE Unique(_)
\* Series.unique(): distinct values in order of first appearance
Unique(s) ==
    IF s = <<>> THEN <<>>
    ELSE LET front == Unique(SubSeq(s, 1, Len(s) - 1))
             last == s[Len(s)]
         IN IF \E i \in DOMAIN front : front[i] = last THEN front
            ELSE Append(front, last)

RECURSIVE Insert(_, _)
Insert(s, x) ==
    IF s = <<>> THEN <<x>>
    ELSE IF StrLess(x, Head(s)) THEN <<x>> \o s
    ELSE <<Head(s)>> \o Insert(Tail(s), x)

RECURSIVE Sorted(_)
\* sorted() on a list of str
Sorted(s) == IF s = <<>> THEN <<>> ELSE Insert(Sorted(Tail(s)), Head(s))

CountriesUnsorted(t) == Unique(Column(t, "country"))

\* countries = sorted(df["country"].unique())
Countries(t) == Sorted(Unique(Column(t, "country")))

\* st.sidebar.selectbox: one of the options, None when there is none
SelectboxValues(options) ==
    IF options = <<>> THEN {NoCountry} ELSE {options[i] : i \in DOMAIN options}

Horizons == MinHorizon..MaxHorizon


----------------------------------------------------------------------------
(* The views *)

FilterRows(t, c) == SelectSeq(t.rows, LAMBDA r : r[ColIndex(t, "country")] = c)

RemoveAt(s, i) == SubSeq(s, 1, i - 1) \o SubSeq(s, i + 1, Len(s))

RECURSIVE AscendingOrders(_, _)
\* every arrangement of rows in non-decreasing order of column k; rows with
\* equal keys may come out in any order (the default sort is not stable)
AscendingOrders(rows, k) ==
    IF rows = <<>> THEN {<<>>}
    ELSE LET firsts == {i \in DOMAIN rows : \A j \in DOMAIN rows : rows[i][k] <= rows[j][k]}
         IN UNION {{<<rows[i]>> \o rest : rest \in AscendingOrders(RemoveAt(rows, i), k)} :
                   i \in firsts}

FilterOnly(t, c) == {[columns |-> t.columns, rows |-> FilterRows(t, c)]}

\* df[df["country"] == selected_country].sort_values("year"): the possible results
CountryDf(t, c) ==
    {[columns |-> t.columns, rows |-> r] :
        r \in AscendingOrders(FilterRows(t, c), ColIndex(t, "year"))}

\* the data handed to ax.plot: country_df["year"], country_df[access_type]
TrendData(cdf, metric) == [x |-> Column(cdf, "year"), y |-> Column(cdf, metric)]

SetOf(s) == {s[i] : i \in DOMAIN s}

RECURSIVE SumOver(_, _)
SumOver(s, S) ==
    IF S = {} THEN 0
    ELSE LET i == CHOOSE j \in S : TRUE IN s[i] + SumOver(s, S \ {i})

RECURSIVE AscendingInts(_)
AscendingInts(S) ==
    IF S = {} THEN <<>>
    ELSE LET m == CHOOSE x \in S : \A y \in S : x <= y
         IN <<m>> \o AscendingInts(S \ {m})

Empty == <<0, 0>>                       \* an empty cell (NaN)

\* the pivot with the cells that have no group set to fill
Pivot(t, metric, fill) ==
    LET cs == Column(t, "country")
        ys == Column(t, "year")
        vs == Column(t, metric)
        data == {i \in DOMAIN t.rows : vs[i] # Missing}
        group(c, y) == {i \in data : cs[i] = c /\ ys[i] = y}
        index == Sorted(Unique(SelectSeq(cs, LAMBDA c : \E i \in data : cs[i] = c)))
        columns == AscendingInts({ys[i] : i \in data})
    IN [index |-> index,
        columns |-> columns,
        cell |-> [p \in SetOf(index) \X SetOf(columns) |->
                    IF group(p[1], p[2]) = {} THEN fill
                    ELSE <<SumOver(vs, group(p[1], p[2])), Cardinality(group(p[1], p[2]))>>]]

PivotZeroFilled(t, metric) == Pivot(t, metric, <<0, 1>>)

\* df.pivot_table(index="country", columns="year", values=access_type):
\* the mean of the non-missing values of each (country, year) group; groups,
\* and so countries and years, without any value are dropped; a pair of the
\* grid without a group is an empty cell
PivotTable(t, metric) == Pivot(t, metric, Empty)

\* country_df.set_index("year")[access_type]: pairs <<year, value>>
Series(cdf, metric) ==
    [i \in DOMAIN cdf.rows |-> <<cdf.rows[i][ColIndex(cdf, "year")],
                                 cdf.rows[i][ColIndex(cdf, metric)]>>]

\* if len(series) < 6
TooShort(s) == Len(s) < MinPoints

\* series.index.max()
IndexMax(s) == CHOOSE y \in {s[i][1] : i \in DOMAIN s} : \A i \in DOMAIN s : s[i][1] <= y

RangeFromLast(s, n) == [i \in 1..n |-> IndexMax(s) + i - 1]

\* range(series.index.max() + 1, series.index.max() + 1 + forecast_years)
ForecastYearIndex(s, n) ==
    LET start == IndexMax(s) + 1
        stop == IndexMax(s) + 1 + n
    IN [i \in 1..(stop - start) |-> start + i - 1]

\* values the fitted model may forecast, in hundredths
ForecastValues == {7512, 8996, 9000, 9004}

\* model_fit.forecast(steps=n): n values, whatever the estimator produces
ForecastResults(n) ==
    {[i \in 1..n |-> IF i = n THEN last ELSE early] :
        early \in ForecastValues, last \in ForecastValues}

\* format(v, ".1f") of v hundredths, as a number of tenths; the values of the
\* model are never half-way between two tenths
RoundTenths(v) == IF v % 10 < 5 THEN v \div 10 ELSE v \div 10 + 1

RecommendOnRounded(c, fc) ==
    IF RoundTenths(fc[Len(fc)]) * 10 < Threshold
    THEN [kind |-> "warning", country |-> c, shown |-> RoundTenths(fc[Len(fc)])]
    ELSE [kind |-> "success", country |-> c, shown |-> 0]

\* future_value = forecast.iloc[-1]; the branch on future_value < 90
Recommendation(c, fc) ==
    LET future_value == fc[Len(fc)]
    IN IF future_value < Threshold
       THEN [kind |-> "warning", country |-> c, shown |-> RoundTenths(future_value)]
       ELSE [kind |-> "success", country |-> c, shown |-> 0]

----------------------------------------------------------------------------
(* The script run *)

Ended == {"stopped", "crashed"}

ScriptReset ==
    /\ df' = NoTable
    /\ countries' = <<>>
    /\ selected_country' = NoCountry
    /\ access_type' = "electricity_access"
    /\ forecast_years' = DefaultHorizon
    /\ country_df' = NoTable
    /\ loaded' = FALSE

LaterUnchanged ==
    UNCHANGED <<trend, pivot, series, engine, forecast, forecast_year_index,
                latest_value, message>>

Init ==
    /\ uploaded_file = NoFile
    /\ cache = {}
    /\ nparse = 0
    /\ ncall = 0
    /\ runs = 1
    /\ pc = "start"
    /\ out = <<>>
    /\ loaded = FALSE
    /\ df = NoTable
    /\ countries = <<>>
    /\ selected_country = NoCountry
    /\ access_type = "electricity_access"
    /\ forecast_years = DefaultHorizon
    /\ country_df = NoTable
    /\ trend = NoTrend
    /\ pivot = NoPivot
    /\ series = <<>>
    /\ engine = FALSE
    /\ forecast = <<>>
    /\ forecast_year_index = <<>>
    /\ latest_value = Missing
    /\ message = NoMessage

\* the user uploads, replaces or removes the file, or changes a control: the
\* framework runs the script again from the top
Rerun ==
    /\ pc \in Ended
    /\ runs < MaxRuns
    /\ runs' = runs + 1
    /\ \E f \in RunFiles \cup {NoFile} : uploaded_file' = f
    /\ pc' = "start"
    /\ out' = <<>>
    /\ ScriptReset
    /\ UNCHANGED <<cache, nparse, ncall>>
    /\ LaterUnchanged

\* st.set_page_config, st.title, st.markdown
TitleAndDescription ==
    /\ pc = "start"
    /\ out' = out \o <<"title", "description">>
    /\ pc' = "upload"
    /\ UNCHANGED <<uploaded_file, cache, nparse, ncall, runs, loaded, df, countries,
                   selected_country, access_type, forecast_years, country_df>>
    /\ LaterUnchanged

NeverNone(f) == FALSE

\* uploaded_file is None
IsNone(f) == f = NoFile

\* if uploaded_file is None: st.warning(...); st.stop()
FileGuard ==
    /\ pc = "upload"
    /\ IF IsNone(uploaded_file)
       THEN /\ out' = Append(out, "warning: please upload")
            /\ pc' = "stopped"
       ELSE /\ out' = out
            /\ pc' = "load"
    /\ UNCHANGED <<uploaded_file, cache, nparse, ncall, runs, loaded, df, countries,
                   selected_country, access_type, forecast_years, country_df>>
    /\ LaterUnchanged

Cached(f) == \E e \in cache : e.key = CacheKey(f)

\* df = load_data(uploaded_file), load_data under @st.cache_data: the body
\* runs on a miss only, and the caller gets a copy of the stored value;
\* pd.read_csv raises when handed None
LoadData ==
    /\ pc = "load"
    /\ loaded' = TRUE
    /\ ncall' = ncall + 1
    /\ IF uploaded_file = NoFile
       THEN /\ pc' = "crashed"
            /\ UNCHANGED <<df, cache, nparse>>
       ELSE /\ pc' = "controls"
            /\ IF Cached(uploaded_file)
               THEN /\ df' = (CHOOSE e \in cache : e.key = CacheKey(uploaded_file)).value
                    /\ UNCHANGED <<cache, nparse>>
               ELSE /\ df' = LoadDataBody(uploaded_file)
                    /\ cache' = cache \cup {[key |-> CacheKey(uploaded_file),
                                             value |-> LoadDataBody(uploaded_file)]}
                    /\ nparse' = nparse + 1
    /\ UNCHANGED <<uploaded_file, runs, out, countries, selected_country,
                   access_type, forecast_years, country_df>>
    /\ LaterUnchanged

\* st.sidebar.header, the two select boxes and the slider (of the slider's
\* values the least, the default and the greatest)
SidebarControls ==
    /\ pc = "controls"
    /\ countries' = Countries(df)
    /\ \E c \in SelectboxValues(Countries(df)) : selected_country' = c
    /\ \E a \in AccessTypes : access_type' = a
    /\ \E n \in {MinHorizon, DefaultHorizon, MaxHorizon} : forecast_years' = n
    /\ pc' = "filter"
    /\ UNCHANGED <<uploaded_file, cache, nparse, ncall, runs, out, loaded, df, country_df>>
    /\ LaterUnchanged

\* country_df = df[df["country"] == selected_country].sort_values("year")
FilterData ==
    /\ pc = "filter"
    /\ \E r \in CountryDf(df, selected_country) : country_df' = r
    /\ pc' = "trend"
    /\ UNCHANGED <<uploaded_file, cache, nparse, ncall, runs, out, loaded, df, countries,
                   selected_country, access_type, forecast_years>>
    /\ LaterUnchanged

\* st.header("Historical Electrification Trends"); fig, ax = plt.subplots():
\* the script binds no name plt, the statement raises NameError and the
\* framework shows the exception and ends the run
TrendSection ==
    /\ pc = "trend"
    /\ IF "plt" \in BoundNames
       THEN /\ out' = out \o <<"header: trends", "chart: trend", "text: trend">>
            /\ pc' = "heatmap"
       ELSE /\ out' = out \o <<"header: trends", "exception: NameError">>
            /\ pc' = "crashed"
    /\ UNCHANGED <<uploaded_file, cache, nparse, ncall, runs, loaded, df, countries,
                   selected_country, access_type, forecast_years, country_df>>
    /\ LaterUnchanged

Next ==
    \/ Rerun
    \/ TitleAndDescription
    \/ FileGuard
    \/ LoadData
    \/ SidebarControls
    \/ FilterData
    \/ TrendSection

Spec == Init /\ [][Next]_vars

----------------------------------------------------------------------------
(* The data expressions of the script, applied to a loaded table *)

RunUnchanged == UNCHANGED <<uploaded_file, cache, nparse, ncall, runs, loaded, df>>

InitFn ==
    /\ \E f \in FnFiles :
        /\ uploaded_file = f
        /\ df = LoadDataBody(f)
        /\ cache = {[key |-> CacheKey(f), value |-> LoadDataBody(f)]}
    /\ nparse = 1
    /\ ncall = 1
    /\ runs = 1
    /\ pc = "fn_controls"
    /\ out = <<>>
    /\ loaded = TRUE
    /\ countries = <<>>
    /\ selected_country = NoCountry
    /\ access_type = "electricity_access"
    /\ forecast_years = DefaultHorizon
    /\ country_df = NoTable
    /\ trend = NoTrend
    /\ pivot = NoPivot
    /\ series = <<>>
    /\ engine = FALSE
    /\ forecast = <<>>
    /\ forecast_year_index = <<>>
    /\ latest_value = Missing
    /\ message = NoMessage

\* countries, selected_country, access_type
FnControls ==
    /\ pc = "fn_controls"
    /\ countries' = Countries(df)
    /\ \E c \in SelectboxValues(Countries(df)) : selected_country' = c
    /\ \E a \in AccessTypes : access_type' = a
    /\ pc' = "fn_filter"
    /\ RunUnchanged
    /\ UNCHANGED <<out, forecast_years, country_df, trend, pivot, series, engine,
                   forecast, forecast_year_index, latest_value, message>>

\* country_df
FnFilter ==
    /\ pc = "fn_filter"
    /\ \E r \in CountryDf(df, selected_country) : country_df' = r
    /\ pc' = "fn_trend"
    /\ RunUnchanged
    /\ UNCHANGED <<out, countries, selected_country, access_type, forecast_years,
                   trend, pivot, series, engine, forecast, forecast_year_index, latest_value, message>>

\* the arguments of ax.plot; country_df[access_type] raises KeyError when the
\* table has no such column
FnTrend ==
    /\ pc = "fn_trend"
    /\ IF HasColumn(country_df, access_type)
       THEN /\ trend' = TrendData(country_df, access_type)
            /\ pc' = "fn_pivot"
       ELSE /\ trend' = trend
            /\ pc' = "fn_keyerror"
    /\ RunUnchanged
    /\ UNCHANGED <<out, countries, selected_country, access_type, forecast_years,
                   country_df, pivot, series, engine, forecast, forecast_year_index,
                   latest_value, message>>

\* pivot
FnPivot ==
    /\ pc = "fn_pivot"
    /\ pivot' = PivotTable(df, access_type)
    /\ pc' = "fn_series"
    /\ RunUnchanged
    /\ UNCHANGED <<out, countries, selected_country, access_type, forecast_years,
                   country_df, trend, series, engine, forecast, forecast_year_index,
                   latest_value, message>>

\* series; if len(series) < 6: st.error(...); st.stop()
FnSeriesGuard ==
    /\ pc = "fn_series"
    /\ series' = Series(country_df, access_type)
    /\ IF TooShort(Series(country_df, access_type))
       THEN /\ out' = Append(out, "error: not enough data")
            /\ pc' = "fn_halted"
       ELSE /\ out' = out
            /\ pc' = "fn_fit"
    /\ RunUnchanged
    /\ UNCHANGED <<countries, selected_country, access_type, forecast_years,
                   country_df, trend, pivot, engine, forecast, forecast_year_index,
                   latest_value, message>>

\* ARIMA(series, order=(1, 1, 1)).fit(), forecast, forecast_year_index, for a
\* horizon the slider allows
FnForecast ==
    /\ pc = "fn_fit"
    /\ engine' = TRUE
    /\ \E n \in Horizons :
        /\ forecast_years' = n
        /\ \E fc \in ForecastResults(n) : forecast' = fc
        /\ forecast_year_index' = ForecastYearIndex(series, n)
    /\ pc' = "fn_recommend"
    /\ RunUnchanged
    /\ UNCHANGED <<out, countries, selected_country, access_type, country_df, trend,
                   pivot, series, latest_value, message>>

\* latest_value = series.iloc[-1] and the recommendation banner
FnRecommend ==
    /\ pc = "fn_recommend"
    /\ latest_value' = series[Len(series)][2]
    /\ message' = Recommendation(selected_country, forecast)
    /\ pc' = "fn_done"
    /\ RunUnchanged
    /\ UNCHANGED <<out, countries, selected_country, access_type, forecast_years,
                   country_df, trend, pivot, series, engine, forecast,
                   forecast_year_index>>

NextFn ==
    \/ FnControls
    \/ FnFilter
    \/ FnTrend
    \/ FnPivot
    \/ FnSeriesGuard
    \/ FnForecast
    \/ FnRecommend

SpecFn == InitFn /\ [][NextFn]_vars

----------------------------------------------------------------------------
(* What the claims speak of, stated on the table itself *)

CountryCol == ColIndex(df, "country")
YearCol == ColIndex(df, "year")

RowsOf(c) == {i \in DOMAIN df.rows : df.rows[i][CountryCol] = c}

\* the rows that carry a value of the metric
DataRows(metric) == {i \in DOMAIN df.rows : df.rows[i][ColIndex(df, metric)] # Missing}

\* the years for which country c has a value of the metric
ObservedYears(c, metric) == {df.rows[i][YearCol] : i \in RowsOf(c) \cap DataRows(metric)}

LastObservedYear(c) ==
    CHOOSE y \in {df.rows[i][YearCol] : i \in RowsOf(c)} :
        \A i \in RowsOf(c) : df.rows[i][YearCol] <= y

Count(s, x) == Cardinality({i \in DOMAIN s : s[i] = x})

IsPrefix(s, t) == Len(s) <= Len(t) /\ \A i \in DOMAIN s : s[i] = t[i]

\* the sections of the page, in the order of the script
SectionOrder ==
    <<"title", "description",
      "header: trends", "chart: trend", "text: trend",
      "header: heatmap", "chart: heatmap", "text: heatmap",
      "header: forecast", "chart: forecast", "text: forecast",
      "header: model", "text: summary",
      "header: planning", "banner", "text: suggestions",
      "footer">>

Sections(o) == SelectSeq(o, LAMBDA e : \E i \in DOMAIN SectionOrder : SectionOrder[i] = e)

Rendered(e) == \E i \in DOMAIN out : out[i] = e

AfterGuard == {"fn_halted", "fn_fit", "fn_recommend", "fn_done"}
AfterPivot == {"fn_series"} \cup AfterGuard
AfterTrend == {"fn_pivot"} \cup AfterPivot
AfterFilter == {"fn_trend", "fn_keyerror"} \cup AfterTrend

----------------------------------------------------------------------------
(* The claims *)

\* C1: in a run without an uploaded file the page shows the title, the
\* description and the 'please upload' warning and the run halts there:
\* no later section is rendered and load_data is not called in that run.
C1_NoFileHalts ==
    (uploaded_file = NoFile /\ pc \notin {"start", "upload"}) =>
        /\ pc = "stopped"
        /\ out = <<"title", "description", "warning: please upload">>
        /\ ~loaded
        /\ df = NoTable

\* a later run of a session, after the file was removed, halted at the guard
C1_Witness ==
    /\ uploaded_file = NoFile
    /\ pc = "stopped"
    /\ runs > 1
    /\ cache # {}
    /\ out = <<"title", "description", "warning: please upload">>

\* C2: whenever the selected country has fewer than 6 observed years of the
\* selected metric (years with a value, repeated years counted once), the
\* series guard halts with the 'not enough data' error and the forecast
\* engine is not invoked.
C2_GuardCountsObservedYears ==
    (pc \in AfterGuard /\ Cardinality(ObservedYears(selected_country, access_type)) < MinPoints) =>
        /\ pc = "fn_halted"
        /\ ~engine
        /\ out = <<"error: not enough data">>

\* C3: a run with a file and a selected country with fewer than 6 rows ends
\* with the trend chart and the heat map rendered, then the insufficient-data
\* error, and nothing of the forecast section after it.
C3_ChartsThenError ==
    (/\ pc \in Ended
     /\ uploaded_file # NoFile
     /\ selected_country # NoCountry
     /\ Len(country_df.rows) < MinPoints) =>
        /\ Rendered("chart: trend")
        /\ Rendered("chart: heatmap")
        /\ out[Len(out)] = "error: not enough data"
        /\ ~Rendered("chart: forecast")

\* C8: the sections a run renders are a prefix of the fixed sequence, and a
\* run ends before the footer only without a file or with fewer than 6 rows
\* for the selected country.
C8_PrefixAndExits ==
    /\ IsPrefix(Sections(out), SectionOrder)
    /\ (pc \in Ended /\ ~Rendered("footer")) =>
           (uploaded_file = NoFile \/ Len(country_df.rows) < MinPoints)

C6_SelectableCountries ==
    pc # "fn_controls" =>
        /\ \A i, j \in DOMAIN countries : i < j => StrLess(countries[i], countries[j])
        /\ SetOf(countries) = {df.rows[i][CountryCol] : i \in DOMAIN df.rows}
        /\ IF df.rows = <<>>
           THEN countries = <<>> /\ selected_country = NoCountry
           ELSE selected_country \in SetOf(countries) /\ RowsOf(selected_country) # {}

\* the table names the later country first, and twice
C6_Witness ==
    /\ pc = "fn_filter"
    /\ Len(countries) = 2
    /\ Len(df.rows) >= 2
    /\ df.rows[1][CountryCol] = countries[2]
    /\ selected_country = countries[2]

FreshParse(f) == [columns |-> [i \in DOMAIN f.header |-> Lower(f.header[i])], rows |-> f.rows]

\* C10: every run works on the table a fresh parse of its file would give,
\* whether the file was parsed in this run or an earlier one; the body of
\* load_data has run once per distinct file, however many times load_data was
\* called; and the cached tables stay what the parse made them.
C10_CachedTableIsFreshParse ==
    /\ (loaded /\ pc \in {"controls", "filter", "trend", "crashed"}) =>
           df = FreshParse(uploaded_file)
    /\ nparse = Cardinality(cache)
    /\ nparse <= ncall
    /\ \A e \in cache : \E f \in RunFiles : CacheKey(f) = e.key /\ e.value = FreshParse(f)
    /\ \A e1, e2 \in cache : e1.key = e2.key => e1 = e2

\* three calls of load_data in one session, two files parsed: one run was
\* served from the cache, and the current run has the table of its own file
C10_Witness ==
    /\ ncall = 3
    /\ nparse = 2
    /\ pc = "trend"
    /\ df = FreshParse(uploaded_file)
    /\ \E e \in cache : e.key = uploaded_file
    /\ \E e \in cache : e.key # uploaded_file

====
